---- MODULE Spec2Model ----
(***************************************************************************)
(* The artifact cache (src/src/storage/download.rs) and the container      *)
(* launcher (src/src/shell.rs) of lal, as state machines over a small      *)
(* file system.                                                            *)
(*                                                                         *)
(* A path is a sequence of path components, Path::join is Append.  The     *)
(* file system is the set of directories (dirs) and the map from file      *)
(* paths to file contents (files).  Every fallible call of the code        *)
(* (backend call, std::fs call) takes its outcome from a record of         *)
(* outcomes the action draws with \E.                                      *)
(***************************************************************************)
EXTENDS Naturals, Integers, Sequences, FiniteSets, TLC

VARIABLES dirs, files, launch, procs

vars == <<dirs, files, launch, procs>>

(***************************************************************************)
(* Bounds and input alphabets                                              *)
(***************************************************************************)
\* number of distinct build outputs ./OUTPUT can hold when stash_output runs
MaxBuild == 2
\* longest list of configured mounts, longest list of command tokens
MaxMounts == 2
MaxCommand == 2
\* most cache keys made cached when the keys are looked at on their own
MaxCached == 2

Names == {"a", "b"}
Versions == {1}
NoEnv == "None"                 \* env: Option<&str> = None
Envs == {NoEnv, "dev"}          \* None, Some("dev")
NoVersion == 0                  \* version: Option<u32> = None
VersionArgs == {NoVersion} \cup Versions
Codes == {"c1"}
Builds == 1..MaxBuild

CacheRoot == <<"cache">>        \* backend.get_cache_dir()
Cwd == <<".">>                  \* Path::new(".")

\* what is left of a file whose write stopped half way
Truncated == <<"truncated">>
\* a file of ./INPUT/<name>/ that no archive of this layer put there
Unrelated == <<"unrelated">>

(***************************************************************************)
(* std::fs and std::path                                                   *)
(***************************************************************************)
is_dir(fs, p) == p \in fs.dirs

is_file(fs, p) == p \in DOMAIN fs.files

Prefixes(p) == {SubSeq(p, 1, i) : i \in 1..Len(p)}

IsUnder(q, p) == Len(q) > Len(p) /\ SubSeq(q, 1, Len(p)) = p

\* fs::create_dir_all(p), succeeding
create_dir_all(fs, p) == [fs EXCEPT !.dirs = @ \cup Prefixes(p)]

\* a file write (fs::copy's destination, a download, an archive) that succeeds
write_file(fs, p, c) ==
  [fs EXCEPT !.files = [q \in (DOMAIN @) \cup {p} |-> IF q = p THEN c ELSE @[q]]]

\* fs::remove_file(p), succeeding
remove_file(fs, p) ==
  [fs EXCEPT !.files = [q \in (DOMAIN @) \ {p} |-> @[q]]]

\* fs::remove_dir_all(p), succeeding: p and everything under it is gone
remove_dir_all(fs, p) ==
  [dirs |-> {q \in fs.dirs : q # p /\ ~IsUnder(q, p)},
   files |-> [q \in {r \in DOMAIN fs.files : ~IsUnder(r, p)} |-> fs.files[q]]]

(***************************************************************************)
(* Backend (the trait the cache layer is generic over)                     *)
(***************************************************************************)
\* the bytes served for a component: what raw_download(component.tarball, _) writes
TarballOf(name, version, env) == <<"tarball", name, version, env>>

\* the Components get_tarball_url may return
Components == [name : Names, version : Versions]

NoComponent == [name |-> "", version |-> 0]
NoPath == <<>>

\* get_tarball_url(name, version, env): Err(_) or Ok(component)
ResolveOutcomes ==
  {[ok |-> FALSE, component |-> NoComponent]}
    \cup {[ok |-> TRUE, component |-> c] : c \in Components}

\* The outcomes of the fallible calls of one retrieve_published_component, in
\* call order; a call after the first one that makes the function return is
\* never made and is written "ok".
\*   download: "err", "ok" (the file is written), "ok_nofile" (Ok(()) without a file)
\*   copy:     "ok", "err" (nothing written), "err_truncated" (stopped half way)
PublishedOutcomes ==
  {o \in [resolve : ResolveOutcomes,
          download : {"ok", "ok_nofile", "err"},
          mkdir : {"ok", "err"},
          copy : {"ok", "err", "err_truncated"},
          remove : {"ok", "err"}] :
     /\ ~o.resolve.ok => o.download = "ok"
     /\ o.download = "err" => o.mkdir = "ok"
     /\ (o.download # "ok" \/ o.mkdir = "err") => o.copy = "ok"
     /\ o.copy # "ok" => o.remove = "ok"}

\* raw_download(url, dest): Ok(()) or Err(_)
raw_download(fs, component, env, dest, outcome) ==
  CASE outcome = "ok" ->
         write_file(fs, dest, TarballOf(component.name, component.version, env))
    [] outcome = "ok_nofile" -> remove_file(fs, dest)
    [] OTHER -> fs

(***************************************************************************)
(* src/src/storage/download.rs                                             *)
(***************************************************************************)
\* The components of the strings that hold a separator; every other string is
\* one component.  An absolute path starts with the root component "/".
Separated ==
  ("a/b" :> <<"a", "b">>) @@ ("dev/a" :> <<"dev", "a">>) @@ ("/a" :> <<"/", "a">>)

\* Path::new(s).components()
components(s) == IF s \in DOMAIN Separated THEN Separated[s] ELSE <<s>>

\* Path::join(p, s): s is appended component by component, and an absolute s
\* replaces p
join(p, s) ==
  IF components(s)[1] = "/" THEN components(s) ELSE p \o components(s)

\* p.join(s1).join(s2)... for the strings of ss in turn
RECURSIVE joined(_, _)
joined(p, ss) ==
  IF ss = <<>> THEN p ELSE joined(join(p, Head(ss)), Tail(ss))

get_cache_dir(name, version, env) ==
  joined(CacheRoot,
         IF env = NoEnv
           THEN <<"globals", name, ToString(version)>>
           ELSE <<"environments", env, name, ToString(version)>>)

\* a cache that never reports a hit
never_cached(fs, name, version, env) == FALSE

is_cached(fs, name, version, env) == is_dir(fs, get_cache_dir(name, version, env))

\* [fs, res]: the file system store_tarball leaves and its result
store_tarball(fs, name, version, env, o) ==
  LET destdir == get_cache_dir(name, version, env)
      tarname == name \o ".tar"
      dest == Append(destdir, tarname)
      src == Append(Cwd, tarname)
      made == IF is_dir(fs, destdir) THEN fs ELSE create_dir_all(fs, destdir)
  IN  IF ~is_dir(fs, destdir) /\ o.mkdir = "err"
        THEN [fs |-> fs, res |-> "IoError"]
      ELSE IF ~is_file(made, src)
        THEN [fs |-> made, res |-> "MissingTarball"]
      ELSE IF o.copy = "err"
        THEN [fs |-> made, res |-> "IoError"]
      ELSE IF o.copy = "err_truncated"
        THEN [fs |-> write_file(made, dest, Truncated), res |-> "IoError"]
      ELSE LET copied == write_file(made, dest, made.files[src])
           IN  IF o.remove = "err"
                 THEN [fs |-> copied, res |-> "IoError"]
                 ELSE [fs |-> remove_file(copied, src), res |-> "Ok"]

\* What a call of the cache layer leaves and returns: the file system, the
\* result (res "Ok" or the error's kind, detail the error's text), the returned
\* path and Component, and the backend calls it made, in order.
Result(fs, res, detail, path, component, calls) ==
  [fs |-> fs, res |-> res, detail |-> detail, path |-> path,
   component |-> component, calls |-> calls]

\* a retrieval that tries a failed download once more
retrieve_published_retrying(fs, name, version, env, o) ==
  IF ~o.resolve.ok
    THEN Result(fs, "BackendError", "", NoPath, NoComponent, <<"resolve">>)
  ELSE
    LET component == o.resolve.component
        miss == ~is_cached(fs, component.name, component.version, env)
        local_tarball == Append(Cwd, name \o ".tar")
        fetched == raw_download(fs, component, env, local_tarball, o.download)
        stored == store_tarball(fetched, name, component.version, env, o)
        after == IF miss THEN stored.fs ELSE fs
        calls == IF miss THEN <<"resolve", "download">> ELSE <<"resolve">>
        tarname == Append(get_cache_dir(component.name, component.version, env),
                          name \o ".tar")
    IN  IF miss /\ o.download = "err"
          THEN Result(fetched, "BackendError", "", NoPath, component,
                      Append(calls, "download"))
        ELSE IF miss /\ stored.res # "Ok"
          THEN Result(stored.fs, stored.res, "", NoPath, component, calls)
        ELSE IF ~is_cached(after, component.name, component.version, env)
          THEN Result(after, "Panic", "cached component", NoPath, component, calls)
        ELSE Result(after, "Ok", "", tarname, component, calls)

retrieve_published_component(fs, name, version, env, o) ==
  IF ~o.resolve.ok
    THEN Result(fs, "BackendError", "", NoPath, NoComponent, <<"resolve">>)
  ELSE
    LET component == o.resolve.component
        miss == ~is_cached(fs, component.name, component.version, env)
        local_tarball == Append(Cwd, name \o ".tar")
        fetched == raw_download(fs, component, env, local_tarball, o.download)
        stored == store_tarball(fetched, name, component.version, env, o)
        after == IF miss THEN stored.fs ELSE fs
        calls == IF miss THEN <<"resolve", "download">> ELSE <<"resolve">>
        tarname == Append(get_cache_dir(component.name, component.version, env),
                          name \o ".tar")
    IN  IF miss /\ o.download = "err"
          THEN Result(fetched, "BackendError", "", NoPath, component, calls)
        ELSE IF miss /\ stored.res # "Ok"
          THEN Result(stored.fs, stored.res, "", NoPath, component, calls)
        ELSE IF ~is_cached(after, component.name, component.version, env)
          THEN Result(after, "Panic", "cached component", NoPath, component, calls)
        ELSE Result(after, "Ok", "", tarname, component, calls)

\* The outcomes of the fallible calls of one extract_tarball_to_input.
\*   rm:     "ok", "err" (remove_dir_all failed; the code drops its result)
\*   unpack: "ok", "err" (nothing written), "err_partial" (stopped half way)
ExtractOutcomes ==
  {x \in [open : {"ok", "err"},
          header : {"ok", "err"},
          rm : {"ok", "err"},
          mkdir : {"ok", "err"},
          unpack : {"ok", "err", "err_partial"}] :
     /\ x.open = "err" => x.header = "ok"
     /\ (x.open = "err" \/ x.header = "err") => (x.rm = "ok" /\ x.mkdir = "ok")
     /\ (x.open = "err" \/ x.header = "err" \/ x.mkdir = "err") => x.unpack = "ok"}

\* the one entry an archive holds, named as Archive::unpack writes it
ArchiveEntry == "data"

\* an extraction that clears ./INPUT/<component> before it opens the archive
extract_tarball_clearing_first(fs, tarname, component, x) ==
  LET extract_path == <<".", "INPUT", component>>
      removed == IF x.rm = "ok" THEN remove_dir_all(fs, extract_path) ELSE fs
      created == create_dir_all(removed, extract_path)
      entry == Append(extract_path, ArchiveEntry)
  IN  IF ~is_file(fs, tarname) \/ x.open = "err"
        THEN [fs |-> removed, res |-> "IoError"]
      ELSE IF x.header = "err"
        THEN [fs |-> removed, res |-> "IoError"]
      ELSE IF x.mkdir = "err"
        THEN [fs |-> removed, res |-> "IoError"]
      ELSE IF x.unpack = "err"
        THEN [fs |-> created, res |-> "IoError"]
      ELSE IF x.unpack = "err_partial" \/ fs.files[tarname] = Truncated
        THEN [fs |-> write_file(created, entry, Truncated), res |-> "IoError"]
      ELSE [fs |-> write_file(created, entry, fs.files[tarname]), res |-> "Ok"]

\* [fs, res]
extract_tarball_to_input(fs, tarname, component, x) ==
  LET extract_path == <<".", "INPUT", component>>
      removed == IF x.rm = "ok" THEN remove_dir_all(fs, extract_path) ELSE fs
      created == create_dir_all(removed, extract_path)
      entry == Append(extract_path, ArchiveEntry)
  IN  IF ~is_file(fs, tarname) \/ x.open = "err"
        THEN [fs |-> fs, res |-> "IoError"]
      ELSE IF x.header = "err"
        THEN [fs |-> fs, res |-> "IoError"]
      ELSE IF x.mkdir = "err"
        THEN [fs |-> removed, res |-> "IoError"]
      ELSE IF x.unpack = "err"
        THEN [fs |-> created, res |-> "IoError"]
      ELSE IF x.unpack = "err_partial" \/ fs.files[tarname] = Truncated
        THEN [fs |-> write_file(created, entry, Truncated), res |-> "IoError"]
      ELSE [fs |-> write_file(created, entry, fs.files[tarname]), res |-> "Ok"]

unpack_published_component(fs, name, version, env, o, x) ==
  LET got == retrieve_published_component(fs, name, version, env, o)
      ex == extract_tarball_to_input(got.fs, got.path, name, x)
  IN  IF got.res # "Ok" THEN got
      ELSE IF ex.res # "Ok"
        THEN Result(ex.fs, ex.res, "", NoPath, got.component, got.calls)
      ELSE Result(ex.fs, "Ok", "", NoPath, got.component, got.calls)

\* a retrieval that hands out the path without looking for the archive
retrieve_stashed_unchecked(fs, name, code) ==
  Result(fs, "Ok", "", CacheRoot \o <<"stash", name, code, name \o ".tar.gz">>,
         NoComponent, <<>>)

retrieve_stashed_component(fs, name, code) ==
  LET tarpath == CacheRoot \o <<"stash", name, code, name \o ".tar.gz">>
  IN  IF ~is_file(fs, tarpath)
        THEN Result(fs, "MissingStashArtifact", name \o "/" \o code, NoPath,
                    NoComponent, <<>>)
        ELSE Result(fs, "Ok", "", tarpath, NoComponent, <<>>)

\* an unpacking that uses the stashed archive up
unpack_stashed_consuming(fs, name, code, x) ==
  LET got == retrieve_stashed_component(fs, name, code)
      ex == extract_tarball_to_input(got.fs, got.path, name, x)
  IN  IF got.res # "Ok" THEN got
      ELSE Result(remove_file(ex.fs, got.path), ex.res, "", NoPath, NoComponent, <<>>)

unpack_stashed_component(fs, name, code, x) ==
  LET got == retrieve_stashed_component(fs, name, code)
      ex == extract_tarball_to_input(got.fs, got.path, name, x)
  IN  IF got.res # "Ok" THEN got
      ELSE Result(ex.fs, ex.res, "", NoPath, NoComponent, <<>>)

\* the archive of ./OUTPUT when build number b has run
OutputOf(b) == <<"output", b>>
\* what ./OUTPUT/lockfile.json holds
Lockfile == <<"lockfile">>
LockfilePath == <<".", "OUTPUT", "lockfile.json">>

\* The outcomes of the fallible calls of one stash_output.
\*   tar: "ok", "err" (nothing written), "err_truncated" (stopped half way)
StashOutcomes ==
  {x \in [mkdir : {"ok", "err"},
          tar : {"ok", "err", "err_truncated"},
          copy : {"ok", "err"}] :
     /\ x.mkdir = "err" => x.tar = "ok"
     /\ (x.mkdir = "err" \/ x.tar # "ok") => x.copy = "ok"}

\* output::tar(dest): archive ./OUTPUT into dest
output_tar(fs, dest, build, outcome) ==
  CASE outcome = "ok" -> write_file(fs, dest, OutputOf(build))
    [] outcome = "err_truncated" -> write_file(fs, dest, Truncated)
    [] OTHER -> fs

\* a stash that stores the archive without the lockfile
stash_output_without_lockfile(fs, name, code, build, x) ==
  LET destdir == CacheRoot \o <<"stash", name, code>>
      made == create_dir_all(fs, destdir)
      tarred == output_tar(made, Append(destdir, name \o ".tar.gz"), build, x.tar)
  IN  IF x.mkdir = "err" THEN Result(fs, "IoError", "", NoPath, NoComponent, <<>>)
      ELSE IF x.tar # "ok" THEN Result(tarred, "IoError", "", NoPath, NoComponent, <<>>)
      ELSE Result(tarred, "Ok", "", NoPath, NoComponent, <<>>)

\* build: the build whose output ./OUTPUT holds at the call
stash_output(fs, name, code, build, x) ==
  LET destdir == CacheRoot \o <<"stash", name, code>>
      made == create_dir_all(fs, destdir)
      tarred == output_tar(made, Append(destdir, name \o ".tar.gz"), build, x.tar)
  IN  IF x.mkdir = "err" THEN Result(fs, "IoError", "", NoPath, NoComponent, <<>>)
      ELSE IF x.tar # "ok" THEN Result(tarred, "IoError", "", NoPath, NoComponent, <<>>)
      ELSE IF ~is_file(tarred, LockfilePath) \/ x.copy = "err"
        THEN Result(tarred, "IoError", "", NoPath, NoComponent, <<>>)
      ELSE Result(write_file(tarred, Append(destdir, "lockfile.json"),
                             tarred.files[LockfilePath]),
                  "Ok", "", NoPath, NoComponent, <<>>)

(***************************************************************************)
(* src/src/shell.rs                                                        *)
(***************************************************************************)
LalId == 1000                   \* the uid and gid of the container's user
NoExitCode == 1001              \* s.code().unwrap_or(1001)

RECURSIVE Join(_, _)
\* [String].join(sep)
Join(tokens, sep) ==
  IF tokens = <<>> THEN ""
  ELSE IF Len(tokens) = 1 THEN tokens[1]
  ELSE tokens[1] \o sep \o Join(Tail(tokens), sep)

SeqsUpTo(S, n) == UNION {[1..k -> S] : k \in 0..n}

\* Config: the image and the configured mounts
MountChoices ==
  {[src |-> "/a", dest |-> "/b", readonly |-> TRUE],
   [src |-> "/c", dest |-> "/d", readonly |-> FALSE]}

Configs == [container : {"img:1"}, mounts : SeqsUpTo(MountChoices, MaxMounts)]

Commands == SeqsUpTo({"echo", "hi"}, MaxCommand)

\* What the process finds around it: $HOME (present or not), the current
\* directory, what `id -u` and `id -g` report and how `docker` ends.  What
\* is never looked at (the group id once the user id lookup has failed or
\* differs, everything once $HOME is missing) is written as in QuietWorld.
\*   id:     "err" (the lookup cannot be run), "malformed", "ok" (prints n)
\*   status: "err" (docker cannot be run), "exit" (with code), "signal"
IdOutcomes ==
  {[how |-> "err", n |-> 0], [how |-> "malformed", n |-> 0],
   [how |-> "ok", n |-> 1000], [how |-> "ok", n |-> 1001]}

StatusOutcomes ==
  {[how |-> "err", code |-> 0], [how |-> "signal", code |-> 0],
   [how |-> "exit", code |-> 0], [how |-> "exit", code |-> 3]}

\* the world in which nothing fails
QuietWorld ==
  [home |-> [some |-> TRUE, path |-> "/home/u"], pwd |-> "/w",
   uid |-> [how |-> "ok", n |-> 1000], gid |-> [how |-> "ok", n |-> 1000],
   status |-> [how |-> "exit", code |-> 0]]

Worlds ==
  {w \in [home : [some : BOOLEAN, path : {"/home/u"}], pwd : {"/w"},
          uid : IdOutcomes, gid : IdOutcomes, status : StatusOutcomes] :
     /\ w.uid # QuietWorld.uid => w.gid = QuietWorld.gid
     /\ ~w.home.some => (w.uid = QuietWorld.uid /\ w.status = QuietWorld.status)}

\* a check that looks at the user id only
permission_check_uid_only(w) ==
  LET id_u == <<"id", "-u">>
  IN  IF w.uid.how = "err"
        THEN [spawned |-> <<id_u>>, res |-> "IoError", detail |-> ""]
      ELSE IF w.uid.how = "malformed"
        THEN [spawned |-> <<id_u>>, res |-> "Panic", detail |-> ""]
      ELSE IF w.uid.n # LalId
        THEN [spawned |-> <<id_u>>, res |-> "DockerPermissionSafety",
              detail |-> "UID is " \o ToString(w.uid.n) \o ", not 1000"]
      ELSE [spawned |-> <<id_u>>, res |-> "Ok", detail |-> ""]

\* [spawned, res, detail]: the lookups run, in order, and the result
permission_sanity_check(w) ==
  LET id_u == <<"id", "-u">>
      id_g == <<"id", "-g">>
  IN  IF w.uid.how = "err"
        THEN [spawned |-> <<id_u>>, res |-> "IoError", detail |-> ""]
      ELSE IF w.uid.how = "malformed"
        THEN [spawned |-> <<id_u>>, res |-> "Panic", detail |-> ""]
      ELSE IF w.uid.n # LalId
        THEN [spawned |-> <<id_u>>, res |-> "DockerPermissionSafety",
              detail |-> "UID is " \o ToString(w.uid.n) \o ", not 1000"]
      ELSE IF w.gid.how = "err"
        THEN [spawned |-> <<id_u, id_g>>, res |-> "IoError", detail |-> ""]
      ELSE IF w.gid.how = "malformed"
        THEN [spawned |-> <<id_u, id_g>>, res |-> "Panic", detail |-> ""]
      ELSE IF w.gid.n # LalId
        THEN [spawned |-> <<id_u, id_g>>, res |-> "DockerPermissionSafety",
              detail |-> "GID is " \o ToString(w.gid.n) \o ", not 1000"]
      ELSE [spawned |-> <<id_u, id_g>>, res |-> "Ok", detail |-> ""]

RECURSIVE MountArgsAllReadOnly(_)
\* a loop that mounts everything read-only
MountArgsAllReadOnly(mounts) ==
  IF mounts = <<>> THEN <<>>
  ELSE <<"-v", mounts[1].src \o ":" \o mounts[1].dest \o ":ro">>
         \o MountArgsAllReadOnly(Tail(mounts))

RECURSIVE MountArgs(_)
\* the loop over cfg.mounts: "-v", then src:dest and ":ro" when readonly
MountArgs(mounts) ==
  IF mounts = <<>> THEN <<>>
  ELSE <<"-v",
         mounts[1].src \o ":" \o mounts[1].dest
           \o (IF mounts[1].readonly THEN ":ro" ELSE "")>>
         \o MountArgs(Tail(mounts))

\* What one call of the launcher did: the argument vector it built, the lines
\* it printed, the processes it ran (in order), its warnings and its result
\* (code: the code of a SubprocessFailure).
Launched(args, stdout, spawned, warnings, res, code) ==
  [args |-> args, stdout |-> stdout, spawned |-> spawned, warnings |-> warnings,
   res |-> res, code |-> code]

\* a launcher whose dry run makes the permission check all the same
docker_run_dry_checking(cfg, command, interactive, printonly, w) ==
  LET args == <<"run", "--rm">>
                \o MountArgs(cfg.mounts)
                \o <<"-v", w.home.path \o "/.gitconfig:/home/lal/.gitconfig:ro">>
                \o <<"-v", w.pwd \o ":/home/lal/volume">>
                \o <<"-w", "/home/lal/volume", "--user", "lal">>
                \o <<IF interactive THEN "-it" ELSE "-t">>
                \o <<cfg.container>>
                \o command
      check == permission_sanity_check(w)
      warnings == IF check.res = "Ok" THEN <<>>
                  ELSE <<check.detail, "You will likely have permission issues">>
      docker == <<"docker">> \o args
  IN  IF ~w.home.some
        THEN Launched(<<>>, <<>>, <<>>, <<>>, "Panic", 0)
      ELSE IF check.res = "Panic"
        THEN Launched(args, <<>>, check.spawned, <<>>, "Panic", 0)
      ELSE IF printonly
        THEN Launched(args, <<"docker " \o Join(args, " ")>>, check.spawned,
                      warnings, "Ok", 0)
      ELSE IF w.status.how = "err"
        THEN Launched(args, <<>>, Append(check.spawned, docker), warnings,
                      "IoError", 0)
      ELSE IF w.status.how = "exit" /\ w.status.code = 0
        THEN Launched(args, <<>>, Append(check.spawned, docker), warnings, "Ok", 0)
      ELSE Launched(args, <<>>, Append(check.spawned, docker), warnings,
                    "SubprocessFailure",
                    IF w.status.how = "exit" THEN w.status.code ELSE NoExitCode)

\* a launcher that gives up when the permission check fails
docker_run_aborting(cfg, command, interactive, printonly, w) ==
  LET args == <<"run", "--rm">>
                \o MountArgs(cfg.mounts)
                \o <<"-v", w.home.path \o "/.gitconfig:/home/lal/.gitconfig:ro">>
                \o <<"-v", w.pwd \o ":/home/lal/volume">>
                \o <<"-w", "/home/lal/volume", "--user", "lal">>
                \o <<IF interactive THEN "-it" ELSE "-t">>
                \o <<cfg.container>>
                \o command
      check == permission_sanity_check(w)
      docker == <<"docker">> \o args
  IN  IF ~w.home.some
        THEN Launched(<<>>, <<>>, <<>>, <<>>, "Panic", 0)
      ELSE IF printonly
        THEN Launched(args, <<"docker " \o Join(args, " ")>>, <<>>, <<>>, "Ok", 0)
      ELSE IF check.res # "Ok"
        THEN Launched(args, <<>>, check.spawned, <<>>, check.res, 0)
      ELSE IF w.status.how = "err"
        THEN Launched(args, <<>>, Append(check.spawned, docker), <<>>, "IoError", 0)
      ELSE IF w.status.how = "exit" /\ w.status.code = 0
        THEN Launched(args, <<>>, Append(check.spawned, docker), <<>>, "Ok", 0)
      ELSE Launched(args, <<>>, Append(check.spawned, docker), <<>>,
                    "SubprocessFailure",
                    IF w.status.how = "exit" THEN w.status.code ELSE NoExitCode)

\* a launcher that reports every failure of docker with code 1
docker_run_flattening(cfg, command, interactive, printonly, w) ==
  LET args == <<"run", "--rm">>
                \o MountArgs(cfg.mounts)
                \o <<"-v", w.home.path \o "/.gitconfig:/home/lal/.gitconfig:ro">>
                \o <<"-v", w.pwd \o ":/home/lal/volume">>
                \o <<"-w", "/home/lal/volume", "--user", "lal">>
                \o <<IF interactive THEN "-it" ELSE "-t">>
                \o <<cfg.container>>
                \o command
      check == permission_sanity_check(w)
      warnings == IF check.res = "Ok" THEN <<>>
                  ELSE <<check.detail, "You will likely have permission issues">>
      docker == <<"docker">> \o args
  IN  IF ~w.home.some
        THEN Launched(<<>>, <<>>, <<>>, <<>>, "Panic", 0)
      ELSE IF printonly
        THEN Launched(args, <<"docker " \o Join(args, " ")>>, <<>>, <<>>, "Ok", 0)
      ELSE IF check.res = "Panic"
        THEN Launched(args, <<>>, check.spawned, <<>>, "Panic", 0)
      ELSE IF w.status.how = "err"
        THEN Launched(args, <<>>, Append(check.spawned, docker), warnings,
                      "IoError", 0)
      ELSE IF w.status.how = "exit" /\ w.status.code = 0
        THEN Launched(args, <<>>, Append(check.spawned, docker), warnings, "Ok", 0)
      ELSE Launched(args, <<>>, Append(check.spawned, docker), warnings,
                    "SubprocessFailure", 1)

docker_run(cfg, command, interactive, printonly, w) ==
  LET git_cfg == w.home.path \o "/" \o ".gitconfig"
      args == <<"run", "--rm">>
                \o MountArgs(cfg.mounts)
                \o <<"-v", git_cfg \o ":/home/lal/.gitconfig:ro">>
                \o <<"-v", w.pwd \o ":/home/lal/volume">>
                \o <<"-w", "/home/lal/volume">>
                \o <<"--user", "lal">>
                \o <<IF interactive THEN "-it" ELSE "-t">>
                \o <<cfg.container>>
                \o command
      check == permission_sanity_check(w)
      warnings == IF check.res = "Ok" THEN <<>>
                  ELSE <<check.detail, "You will likely have permission issues">>
      docker == <<"docker">> \o args
  IN  IF ~w.home.some
        THEN Launched(<<>>, <<>>, <<>>, <<>>, "Panic", 0)
      ELSE IF printonly
        THEN Launched(args, <<"docker " \o Join(args, " ")>>, <<>>, <<>>, "Ok", 0)
      ELSE IF check.res = "Panic"
        THEN Launched(args, <<>>, check.spawned, <<>>, "Panic", 0)
      ELSE IF w.status.how = "err"
        THEN Launched(args, <<>>, Append(check.spawned, docker), warnings,
                      "IoError", 0)
      ELSE IF w.status.how = "exit" /\ w.status.code = 0
        THEN Launched(args, <<>>, Append(check.spawned, docker), warnings, "Ok", 0)
      ELSE Launched(args, <<>>, Append(check.spawned, docker), warnings,
                    "SubprocessFailure",
                    IF w.status.how = "exit" THEN w.status.code ELSE NoExitCode)

\* cmd: Option<&str>, [some, text]
ShellCommands == {[some |-> FALSE, text |-> ""], [some |-> TRUE, text |-> "ls -l"]}

\* a shell that hands the command over without the quotes
shell_bash_unquoted(cmd) ==
  IF cmd.some THEN <<"/bin/bash", "-c", cmd.text>>
              ELSE <<"/bin/bash">>

\* the command tokens shell hands to docker_run
shell_bash(cmd) ==
  IF cmd.some THEN <<"/bin/bash", "-c", "\"\"" \o cmd.text \o "\"\"">>
              ELSE <<"/bin/bash">>

shell(cfg, printonly, cmd, w) == docker_run(cfg, shell_bash(cmd), TRUE, printonly, w)

\* A call of the launcher: the function called, its arguments, the world it
\* runs in, and, once it has returned (pc = "returned"), what it did.
NothingLaunched == Launched(<<>>, <<>>, <<>>, <<>>, "Ok", 0)

NoLaunch ==
  [op |-> "none", pc |-> "returned", cfg |-> [container |-> "", mounts |-> <<>>],
   command |-> <<>>, cmd |-> [some |-> FALSE, text |-> ""], interactive |-> FALSE,
   printonly |-> FALSE, world |-> QuietWorld, did |-> NothingLaunched]

\* a dry run reads $HOME and the current directory only
WorldsOf(printonly) ==
  IF printonly
    THEN {w \in Worlds : w.uid = QuietWorld.uid /\ w.gid = QuietWorld.gid
                           /\ w.status = QuietWorld.status}
    ELSE Worlds

\* docker_run(cfg, command, interactive, printonly) called in world w
DockerRunCalled(cfg, command, interactive, printonly, w) ==
  [NoLaunch EXCEPT !.op = "docker_run", !.pc = "called", !.cfg = cfg,
                   !.command = command, !.interactive = interactive,
                   !.printonly = printonly, !.world = w]

\* shell(cfg, printonly, cmd) called in world w
ShellCalled(cfg, printonly, cmd, w) ==
  [NoLaunch EXCEPT !.op = "shell", !.pc = "called", !.cfg = cfg, !.cmd = cmd,
                   !.interactive = TRUE, !.printonly = printonly, !.world = w]

(***************************************************************************)
(* Two processes inside retrieve_published_component                       *)
(***************************************************************************)
\* The processes that share the cache; each runs in a working directory of
\* its own.
Procs == {1, 2}

working_dir(p) == <<"wd" \o ToString(p)>>

\* Where a process is inside retrieve_published_component and store_tarball
\* (pc), and, once it has returned ("done"), its result and the path returned.
\* A process that is in no retrieval is "idle".
AtStep(pc) == [pc |-> pc, res |-> "", path |-> NoPath]

NoProcs == [p \in Procs |-> AtStep("idle")]

\* the request both processes make, and the Component it resolves to
RacedName == "a"
RacedEnv == NoEnv
RacedComponent == [name |-> "a", version |-> 1]

(***************************************************************************)
(* The state machine: one action per operation of CachedBackend             *)
(***************************************************************************)
FS == [dirs |-> dirs, files |-> files]

\* The working directory of a project that has been built: ./OUTPUT holds the
\* lockfile, ./INPUT/a/ exists with a file of its own, ./INPUT/b/ does not
\* exist.  The cache root is empty.
FsInit ==
  /\ dirs = {Cwd, <<".", "OUTPUT">>, <<".", "INPUT">>, <<".", "INPUT", "a">>}
  /\ files = (<<".", "INPUT", "a", "old">> :> Unrelated) @@ (LockfilePath :> Lockfile)

\* no call of the launcher is under way, and no process is inside a retrieval
Init == FsInit /\ launch = NoLaunch /\ procs = NoProcs

\* The outcomes that can differ for retrieve_published_component(name, _, env)
\* in fs: on a cache hit nothing after the resolve is called, and
\* create_dir_all is called only for a directory that does not exist.
OutcomesAt(fs, name, env) ==
  {o \in PublishedOutcomes :
     o.resolve.ok =>
       /\ is_cached(fs, o.resolve.component.name, o.resolve.component.version, env)
            => (o.download = "ok" /\ o.mkdir = "ok" /\ o.copy = "ok" /\ o.remove = "ok")
       /\ is_cached(fs, name, o.resolve.component.version, env) => o.mkdir = "ok"}

\* Each action takes the alphabets its inputs are drawn from: N the component
\* names, V the version arguments, E the environments.
RetrievePublished(N, V, E) ==
  \E name \in N, version \in V, env \in E :
    \E o \in OutcomesAt(FS, name, env) :
      LET r == retrieve_published_component(FS, name, version, env, o)
      IN  dirs' = r.fs.dirs /\ files' = r.fs.files /\ UNCHANGED <<launch, procs>>

UnpackPublished(N, V, E) ==
  \E name \in N, version \in V, env \in E :
    \E o \in OutcomesAt(FS, name, env) :
      \E x \in IF retrieve_published_component(FS, name, version, env, o).res = "Ok"
                 THEN ExtractOutcomes
                 ELSE {CHOOSE y \in ExtractOutcomes : TRUE} :
        LET r == unpack_published_component(FS, name, version, env, o, x)
        IN  dirs' = r.fs.dirs /\ files' = r.fs.files /\ UNCHANGED <<launch, procs>>

RetrieveStashed(N) ==
  \E name \in N, code \in Codes :
    LET r == retrieve_stashed_component(FS, name, code)
    IN  dirs' = r.fs.dirs /\ files' = r.fs.files /\ UNCHANGED <<launch, procs>>

UnpackStashed(N) ==
  \E name \in N, code \in Codes, x \in ExtractOutcomes :
    LET r == unpack_stashed_component(FS, name, code, x)
    IN  dirs' = r.fs.dirs /\ files' = r.fs.files /\ UNCHANGED <<launch, procs>>

StashOutput(N) ==
  \E name \in N, code \in Codes, build \in Builds, x \in StashOutcomes :
    LET r == stash_output(FS, name, code, build, x)
    IN  dirs' = r.fs.dirs /\ files' = r.fs.files /\ UNCHANGED <<launch, procs>>

\* The five operations of CachedBackend in any order.  The stash takes both
\* names; the operations that write ./INPUT run on one name, and the cache is
\* that of one requested name, its version left to the backend, in one
\* environment (the backend still resolves to any Component).
Next ==
  \/ RetrievePublished({"a"}, {NoVersion}, {"dev"})
  \/ UnpackPublished({"a"}, {NoVersion}, {"dev"})
  \/ RetrieveStashed(Names)
  \/ UnpackStashed({"a"})
  \/ StashOutput(Names)

Spec == Init /\ [][Next]_vars

\* retrieve_published_component alone: both names without an environment, one
\* name in an environment
PublishedNext ==
  \/ RetrievePublished(Names, VersionArgs, {NoEnv})
  \/ RetrievePublished({"a"}, VersionArgs, {"dev"})

PublishedSpec == Init /\ [][PublishedNext]_vars

\* the stash and its unpacking, over every name
StashNext ==
  \/ StashOutput(Names)
  \/ RetrieveStashed(Names)
  \/ UnpackStashed(Names)

StashSpec == Init /\ [][StashNext]_vars

\* the operations that write ./INPUT, with the stash of one name to unpack from
UnpackNext ==
  \/ StashOutput({"a"})
  \/ UnpackStashed(Names)
  \/ UnpackPublished({"a"}, {NoVersion}, {"dev"})

UnpackSpec == Init /\ [][UnpackNext]_vars

\* The launcher: a call drawn in the initial state runs to its return.
ShellInit ==
  /\ FsInit
  /\ procs = NoProcs
  /\ \E cfg \in Configs, printonly \in BOOLEAN :
       \E w \in WorldsOf(printonly) :
         \/ \E command \in Commands, interactive \in BOOLEAN :
              launch = DockerRunCalled(cfg, command, interactive, printonly, w)
         \/ \E cmd \in ShellCommands :
              launch = ShellCalled(cfg, printonly, cmd, w)

DockerRun ==
  /\ launch.op = "docker_run" /\ launch.pc = "called"
  /\ launch' = [launch EXCEPT
                  !.pc = "returned",
                  !.did = docker_run(launch.cfg, launch.command, launch.interactive,
                                     launch.printonly, launch.world)]
  /\ UNCHANGED <<dirs, files, procs>>

Shell ==
  /\ launch.op = "shell" /\ launch.pc = "called"
  /\ launch' = [launch EXCEPT
                  !.pc = "returned",
                  !.command = shell_bash(launch.cmd),
                  !.did = shell(launch.cfg, launch.printonly, launch.cmd, launch.world)]
  /\ UNCHANGED <<dirs, files, procs>>

ShellNext == DockerRun \/ Shell

ShellSpec == ShellInit /\ [][ShellNext]_vars

\* The permission check on its own: the ids `id -u` and `id -g` may report,
\* and one call of permission_sanity_check in a world that reports them.
ReportedIds == {0, 1, 999, 1000, 1001, 65534, 2147483647}

ReportedIdOutcomes ==
  {[how |-> "err", n |-> 0], [how |-> "malformed", n |-> 0]}
    \cup {[how |-> "ok", n |-> n] : n \in ReportedIds}

\* permission_sanity_check() called in world w
PermissionCheckCalled(w) ==
  [NoLaunch EXCEPT !.op = "permission_sanity_check", !.pc = "called", !.world = w]

PermissionInit ==
  /\ FsInit
  /\ procs = NoProcs
  /\ \E uid \in ReportedIdOutcomes, gid \in ReportedIdOutcomes :
       launch = PermissionCheckCalled([QuietWorld EXCEPT !.uid = uid, !.gid = gid])

\* launch.did is what the function returned: [spawned, res, detail]
PermissionSanityCheck ==
  /\ launch.op = "permission_sanity_check" /\ launch.pc = "called"
  /\ launch' = [launch EXCEPT !.pc = "returned",
                              !.did = permission_sanity_check(launch.world)]
  /\ UNCHANGED <<dirs, files, procs>>

PermissionNext == PermissionSanityCheck

PermissionSpec == PermissionInit /\ [][PermissionNext]_vars

\* The cache keys on their own: names and environments with and without a
\* separator, and the step of store_tarball that makes a key cached, taken
\* while fewer than MaxCached of the keys are.
KeyNames == {"a", "b", "a/b", "/a"}
KeyVersions == {1, 2}
KeyEnvs == {NoEnv, "dev", "dev/a"}
CacheKeys == [name : KeyNames, version : KeyVersions, env : KeyEnvs]

CreateCacheDir ==
  \E k \in CacheKeys :
    /\ Cardinality({c \in CacheKeys : is_cached(FS, c.name, c.version, c.env)})
         < MaxCached
    /\ ~is_cached(FS, k.name, k.version, k.env)
    /\ dirs' = create_dir_all(FS, get_cache_dir(k.name, k.version, k.env)).dirs
    /\ UNCHANGED <<files, launch, procs>>

CacheDirNext == CreateCacheDir

CacheDirSpec == Init /\ [][CacheDirNext]_vars

\* Two calls of retrieve_published_component(RacedName, None, RacedEnv) in two
\* processes, one step of one process at a time.  No call fails: the backend
\* resolves both to RacedComponent and every download and std::fs call
\* succeeds.  fs::copy writes its destination in two steps: the file is
\* created or truncated, then holds the whole source.
ConcurrentInit ==
  /\ dirs = {working_dir(p) : p \in Procs}
  /\ files = [q \in {} |-> <<>>]
  /\ launch = NoLaunch
  /\ procs = [p \in Procs |-> AtStep("resolve")]

Goto(p, pc) == procs' = [procs EXCEPT ![p] = AtStep(pc)]

local_tarball(p) == Append(working_dir(p), RacedName \o ".tar")

raced_destdir == get_cache_dir(RacedName, RacedComponent.version, RacedEnv)

raced_dest == Append(raced_destdir, RacedName \o ".tar")

\* let component = self.get_tarball_url(name, version, env)?
Resolve(p) ==
  /\ procs[p].pc = "resolve"
  /\ Goto(p, "is_cached")
  /\ UNCHANGED <<dirs, files, launch>>

\* if !is_cached(self, &component.name, component.version, env)
CheckCached(p) ==
  /\ procs[p].pc = "is_cached"
  /\ IF is_cached(FS, RacedComponent.name, RacedComponent.version, RacedEnv)
       THEN Goto(p, "assert")
       ELSE Goto(p, "download")
  /\ UNCHANGED <<dirs, files, launch>>

\* self.raw_download(&component.tarball, &local_tarball)?
Download(p) ==
  /\ procs[p].pc = "download"
  /\ LET r == raw_download(FS, RacedComponent, RacedEnv, local_tarball(p), "ok")
     IN  dirs' = r.dirs /\ files' = r.files
  /\ Goto(p, "create_dir_all")
  /\ UNCHANGED launch

\* store_tarball: if !destdir.is_dir() { fs::create_dir_all(&destdir)? }
CreateDestDir(p) ==
  /\ procs[p].pc = "create_dir_all"
  /\ dirs' = IF is_dir(FS, raced_destdir) THEN dirs
             ELSE create_dir_all(FS, raced_destdir).dirs
  /\ Goto(p, "is_file")
  /\ UNCHANGED <<files, launch>>

\* store_tarball: if !src.is_file() { return Err(CliError::MissingTarball) }
CheckStaging(p) ==
  /\ procs[p].pc = "is_file"
  /\ IF is_file(FS, local_tarball(p))
       THEN Goto(p, "copy")
       ELSE procs' = [procs EXCEPT ![p] = [pc |-> "done", res |-> "MissingTarball",
                                           path |-> NoPath]]
  /\ UNCHANGED <<dirs, files, launch>>

\* store_tarball: fs::copy(&src, &dest)?, the destination opened and truncated
CopyBegin(p) ==
  /\ procs[p].pc = "copy"
  /\ files' = write_file(FS, raced_dest, Truncated).files
  /\ Goto(p, "copying")
  /\ UNCHANGED <<dirs, launch>>

\* store_tarball: fs::copy(&src, &dest)?, the contents written
CopyEnd(p) ==
  /\ procs[p].pc = "copying"
  /\ files' = write_file(FS, raced_dest, files[local_tarball(p)]).files
  /\ Goto(p, "remove_file")
  /\ UNCHANGED <<dirs, launch>>

\* store_tarball: fs::remove_file(&src)?
RemoveStaging(p) ==
  /\ procs[p].pc = "remove_file"
  /\ files' = remove_file(FS, local_tarball(p)).files
  /\ Goto(p, "assert")
  /\ UNCHANGED <<dirs, launch>>

\* assert!(is_cached(..)), then Ok((tarname, component))
AssertAndReturn(p) ==
  /\ procs[p].pc = "assert"
  /\ procs' = [procs EXCEPT ![p] =
       IF is_cached(FS, RacedComponent.name, RacedComponent.version, RacedEnv)
         THEN [pc |-> "done", res |-> "Ok",
               path |-> Append(get_cache_dir(RacedComponent.name,
                                             RacedComponent.version, RacedEnv),
                               RacedName \o ".tar")]
         ELSE [pc |-> "done", res |-> "Panic", path |-> NoPath]]
  /\ UNCHANGED <<dirs, files, launch>>

ConcurrentNext ==
  \E p \in Procs :
    \/ Resolve(p)
    \/ CheckCached(p)
    \/ Download(p)
    \/ CreateDestDir(p)
    \/ CheckStaging(p)
    \/ CopyBegin(p)
    \/ CopyEnd(p)
    \/ RemoveStaging(p)
    \/ AssertAndReturn(p)

ConcurrentSpec == ConcurrentInit /\ [][ConcurrentNext]_vars

(***************************************************************************)
(* The cache layout as documented                                          *)
(***************************************************************************)
LayoutDir(name, version, env) ==
  IF env = NoEnv
    THEN <<"cache", "globals", name, ToString(version)>>
    ELSE <<"cache", "environments", env, name, ToString(version)>>

LayoutTar(name, version, env) == Append(LayoutDir(name, version, env), name \o ".tar")

StashArchive(name, code) == <<"cache", "stash", name, code, name \o ".tar.gz">>

StashLockfile(name, code) == <<"cache", "stash", name, code, "lockfile.json">>

\* the outcomes in which get_tarball_url returns component c
OutcomesResolvingTo ==
  [c \in Components |->
     {o \in PublishedOutcomes : o.resolve.ok /\ o.resolve.component = c}]

ResolvingTo(c) == OutcomesResolvingTo[c]

(***************************************************************************)
(* Claims                                                                  *)
(***************************************************************************)

\* C1: whenever the cache directory of a key (name, version, env) exists, it
\* holds the complete <name>.tar.
C1_CachedDirHoldsTarball ==
  \A name \in Names, version \in Versions, env \in Envs :
    is_dir(FS, LayoutDir(name, version, env)) =>
      /\ is_file(FS, LayoutTar(name, version, env))
      /\ files[LayoutTar(name, version, env)] # Truncated

\* C2: when the key the backend resolves to is cached, retrieve_published_component
\* makes the resolve call and no download, writes nothing, and a second such
\* call made right after it returns the same path.
C2_CacheHitIdempotent ==
  \A name \in Names, version \in VersionArgs, env \in Envs, c \in Components :
    is_dir(FS, LayoutDir(c.name, c.version, env)) =>
      \A o1 \in ResolvingTo(c) :
        LET first == retrieve_published_component(FS, name, version, env, o1)
        IN  /\ first.res = "Ok"
            /\ first.calls = <<"resolve">>
            /\ first.fs = FS
            /\ \A o2 \in ResolvingTo(c) :
                 LET second == retrieve_published_component(first.fs, name, version,
                                                            env, o2)
                 IN  /\ second.res = "Ok"
                     /\ second.calls = <<"resolve">>
                     /\ second.fs = FS
                     /\ second.path = first.path

\* C2's case: a tarball fetched earlier is in the cache and a call that
\* resolves to its key returns it.
C2_Witness ==
  \E name \in Names, env \in Envs :
   \E o \in ResolvingTo([name |-> name, version |-> 1]) :
    /\ is_file(FS, LayoutTar(name, 1, env))
    /\ files[LayoutTar(name, 1, env)] = TarballOf(name, 1, env)
    /\ retrieve_published_component(FS, name, NoVersion, env, o).res = "Ok"
    /\ retrieve_published_component(FS, name, NoVersion, env, o).path
         = LayoutTar(name, 1, env)

\* C3: whenever retrieve_published_component returns Ok, the path it returns is
\* the cache directory of the resolved key joined with <name>.tar, and a file
\* is there.
C3_OkPathIsCachedTarball ==
  \A name \in Names, version \in VersionArgs, env \in Envs, o \in PublishedOutcomes :
    LET r == retrieve_published_component(FS, name, version, env, o)
    IN  r.res = "Ok" =>
          /\ r.path = Append(LayoutDir(r.component.name, r.component.version, env),
                             name \o ".tar")
          /\ is_file(r.fs, r.path)

\* C4: the assertion of retrieve_published_component (the resolved key is
\* cached once download and store went through) never fails.
C4_AssertionNeverFails ==
  \A name \in Names, version \in VersionArgs, env \in Envs, o \in PublishedOutcomes :
    retrieve_published_component(FS, name, version, env, o).res # "Panic"

\* C5: a tarball that is in the cache stays there, with the same content, and
\* so does its directory, whatever operation runs next.
C5_CacheEntriesImmutable ==
  [][\A name \in Names, version \in Versions, env \in Envs :
       is_file(FS, LayoutTar(name, version, env)) =>
         /\ LayoutDir(name, version, env) \in dirs'
         /\ LayoutTar(name, version, env) \in DOMAIN files'
         /\ files'[LayoutTar(name, version, env)] = files[LayoutTar(name, version, env)]
    ]_vars

\* the files of ./INPUT/<name>/, by path
InputOf(fs, name) ==
  [p \in {q \in DOMAIN fs.files : IsUnder(q, <<".", "INPUT", name>>)} |-> fs.files[p]]

\* ./INPUT/<name>/ when it holds the entries of an archive and nothing else
UnpackedAs(name, archive) == (<<".", "INPUT", name, ArchiveEntry>> :> archive)

\* C6: whenever unpack_stashed_component or unpack_published_component returns
\* Ok, ./INPUT/<name>/ holds exactly what the archive holds, whatever the
\* directory held before.
C6_UnpackLeavesExactlyArchive ==
  /\ \A name \in Names, code \in Codes, x \in ExtractOutcomes :
       LET r == unpack_stashed_component(FS, name, code, x)
       IN  r.res = "Ok" =>
             InputOf(r.fs, name) = UnpackedAs(name, files[StashArchive(name, code)])
  /\ \A name \in Names, version \in VersionArgs, env \in Envs :
       \A o \in OutcomesAt(FS, name, env), x \in ExtractOutcomes :
         LET got == retrieve_published_component(FS, name, version, env, o)
             r == unpack_published_component(FS, name, version, env, o, x)
         IN  r.res = "Ok" =>
               InputOf(r.fs, name) = UnpackedAs(name, got.fs.files[got.path])

\* C7: retrieve_stashed_component for a pair with no stashed archive fails with
\* MissingStashArtifact("<name>/<code>"), calls the backend not at all and
\* leaves the file system as it was.
C7_MissingStashArtifact ==
  \A name \in Names, code \in Codes :
    ~is_file(FS, StashArchive(name, code)) =>
      LET r == retrieve_stashed_component(FS, name, code)
      IN  /\ r.res = "MissingStashArtifact"
          /\ r.detail = name \o "/" \o code
          /\ r.calls = <<>>
          /\ r.fs = FS

\* C7's case: one pair is stashed, another is not, and asking for the other
\* fails.
C7_Witness ==
  \E name \in Names, other \in Names :
    /\ is_file(FS, StashArchive(other, "c1"))
    /\ is_dir(FS, <<"cache", "stash", name, "c1">>)
    /\ ~is_file(FS, StashArchive(name, "c1"))
    /\ retrieve_stashed_component(FS, name, "c1").res = "MissingStashArtifact"

\* C8: after stash_output(name, code) returns Ok, retrieve_stashed_component
\* (name, code) returns Ok(<root>/stash/<name>/<code>/<name>.tar.gz), the
\* archive is there and holds the output, and lockfile.json is beside it.
C8_StashThenRetrieve ==
  \A name \in Names, code \in Codes, build \in Builds, x \in StashOutcomes :
    LET stashed == stash_output(FS, name, code, build, x)
        got == retrieve_stashed_component(stashed.fs, name, code)
    IN  stashed.res = "Ok" =>
          /\ got.res = "Ok"
          /\ got.path = StashArchive(name, code)
          /\ is_file(stashed.fs, StashArchive(name, code))
          /\ stashed.fs.files[StashArchive(name, code)] = OutputOf(build)
          /\ is_file(stashed.fs, StashLockfile(name, code))

\* C8's case: both pairs have been stashed, one after the other, and each is
\* retrieved.
C8_Witness ==
  \A name \in Names :
    /\ is_file(FS, StashArchive(name, "c1"))
    /\ files[StashArchive(name, "c1")] # Truncated
    /\ is_file(FS, StashLockfile(name, "c1"))
    /\ retrieve_stashed_component(FS, name, "c1").path = StashArchive(name, "c1")

\* C9 as claimed: an archive a stash_output has stored stays as it is, whatever
\* operation runs next.
C9_StashEntriesImmutable ==
  [][\A name \in Names, code \in Codes :
       (is_file(FS, StashArchive(name, code)) /\ files[StashArchive(name, code)] # Truncated)
         => /\ StashArchive(name, code) \in DOMAIN files'
            /\ files'[StashArchive(name, code)] = files[StashArchive(name, code)]
    ]_vars

\* C9 as amended: the archive stored for (name, code) is changed by no step
\* but a stash_output of the same name and code.
C9_OnlyRestashChangesArchive ==
  [][\A name \in Names, code \in Codes :
       is_file(FS, StashArchive(name, code)) =>
         \/ /\ StashArchive(name, code) \in DOMAIN files'
            /\ files'[StashArchive(name, code)] = files[StashArchive(name, code)]
         \/ \E build \in Builds, x \in StashOutcomes :
              LET r == stash_output(FS, name, code, build, x)
              IN  dirs' = r.fs.dirs /\ files' = r.fs.files /\ UNCHANGED <<launch, procs>>
    ]_vars

\* C9's case: the archive of one pair is in the stash and has been unpacked,
\* while the other pair was stashed and a component was fetched into the cache.
C9_Witness ==
  /\ is_file(FS, StashArchive("a", "c1"))
  /\ files[StashArchive("a", "c1")] = OutputOf(1)
  /\ InputOf(FS, "a") = UnpackedAs("a", OutputOf(1))
  /\ is_file(FS, StashArchive("b", "c1"))
  /\ files[StashArchive("b", "c1")] = OutputOf(2)
  /\ is_file(FS, LayoutTar("a", 1, "dev"))

\* the mount flags C10 lists, by position: a flag, then the mount as src:dest
\* with :ro exactly when it is read-only
ListedMountFlags(mounts) ==
  [i \in 1..(2 * Len(mounts)) |->
     IF i % 2 = 1 THEN "-v"
     ELSE LET m == mounts[i \div 2]
          IN  IF m.readonly THEN m.src \o ":" \o m.dest \o ":ro"
                            ELSE m.src \o ":" \o m.dest]

\* the sequence C10 lists for a call l, from the remove-on-exit flag on
ListedInvocation(l) ==
  <<"--rm">>
    \o ListedMountFlags(l.cfg.mounts)
    \o <<"-v", l.world.home.path \o "/.gitconfig:/home/lal/.gitconfig:ro",
         "-v", l.world.pwd \o ":/home/lal/volume",
         "-w", "/home/lal/volume",
         "--user", "lal",
         IF l.interactive THEN "-it" ELSE "-t",
         l.cfg.container>>
    \o l.command

\* a call of docker_run that got as far as building its invocation
BuiltInvocation ==
  /\ launch.op \in {"docker_run", "shell"}
  /\ launch.pc = "returned"
  /\ launch.world.home.some

\* what a returned call must have done if `invocation` is what it built: those
\* are its arguments, a dry run printed "docker", a space and them joined by
\* spaces, and a real run handed them to docker
InvocationIs(invocation) ==
  /\ launch.did.args = invocation
  /\ launch.printonly =>
       launch.did.stdout = <<"docker " \o Join(invocation, " ")>>
  /\ \A i \in 1..Len(launch.did.spawned) :
       launch.did.spawned[i][1] = "docker" =>
         launch.did.spawned[i] = <<"docker">> \o invocation

\* C10 as claimed: the invocation docker_run builds is the remove-on-exit flag,
\* the mount flags, the two implicit mounts, the working directory, the user,
\* the tty flag, the image and the command tokens, in that order, and a dry
\* run prints exactly that sequence joined by spaces after the runtime's name.
C10_InvocationAsListed ==
  BuiltInvocation => InvocationIs(ListedInvocation(launch))

\* C10 as amended: the invocation docker_run builds is the subcommand token
\* "run" followed by the listed sequence, and a dry run prints "docker", then
\* that whole sequence joined by spaces.
C10_InvocationAfterSubcommand ==
  BuiltInvocation => InvocationIs(<<"run">> \o ListedInvocation(launch))

\* C10's case: a dry run with a read-only and a read-write mount and two
\* command tokens has printed its invocation.
C10_Witness ==
  /\ launch.op = "docker_run" /\ launch.pc = "returned" /\ launch.printonly
  /\ Len(launch.cfg.mounts) = 2 /\ Len(launch.command) = 2
  /\ launch.did.stdout =
       <<"docker run --rm -v /a:/b:ro -v /c:/d -v /home/u/.gitconfig:/home/lal/.gitconfig:ro -v /w:/home/lal/volume -w /home/lal/volume --user lal -t img:1 echo hi">>

\* a call of docker_run (made directly or by shell) that has returned, with
\* $HOME found
Returned ==
  /\ launch.op \in {"docker_run", "shell"}
  /\ launch.pc = "returned"
  /\ launch.world.home.some

\* C11: a dry run of docker_run (with $HOME and the current directory found)
\* looks up no identity, runs no docker, warns of nothing, leaves the file
\* system as it was and returns Ok; and what it printed is what the same call
\* prints in every world with the same $HOME and current directory, whatever
\* `id` and `docker` would have done there.
C11_DryRunSideEffectFree ==
  (Returned /\ launch.printonly) =>
    /\ launch.did.spawned = <<>>
    /\ launch.did.warnings = <<>>
    /\ launch.did.res = "Ok"
    /\ Len(launch.did.stdout) = 1
    /\ FsInit
    /\ \A uid \in IdOutcomes, gid \in IdOutcomes, status \in StatusOutcomes :
         LET w == [launch.world EXCEPT !.uid = uid, !.gid = gid, !.status = status]
             again == docker_run(launch.cfg, launch.command, launch.interactive,
                                 TRUE, w)
         IN  /\ again.stdout = launch.did.stdout
             /\ again.spawned = <<>>
             /\ again.res = "Ok"

\* C11's case: a dry run of shell with a command, two mounts configured, has
\* returned Ok with its one line printed and nothing run.
C11_Witness ==
  /\ launch.op = "shell" /\ launch.pc = "returned" /\ launch.printonly
  /\ launch.cmd.some
  /\ Len(launch.cfg.mounts) = 2
  /\ launch.did.res = "Ok"
  /\ launch.did.spawned = <<>>
  /\ Len(launch.did.stdout) = 1

\* the identity lookups of w print numbers (the lookup of the group id counts
\* only when it is made)
IdsParse(w) ==
  /\ w.uid.how # "malformed"
  /\ (w.uid.how = "ok" /\ w.uid.n = LalId) => w.gid.how # "malformed"

\* the worlds that differ from w in what `id -u` and `id -g` do, and in that only
SameButIds(w) ==
  {v \in Worlds : IdsParse(v) /\ v.home = w.home /\ v.pwd = w.pwd /\ v.status = w.status}

\* C12: a real run of docker_run (with $HOME found and `id` printing numbers)
\* runs the permission check first and docker exactly once, after it, whether
\* the check passed, found another uid or gid, or could not run a lookup; a
\* failed check leaves a warning and nothing else: the result is the one the
\* same call has under every other outcome of the check.
C12_CheckThenSpawnOnce ==
  (Returned /\ ~launch.printonly /\ IdsParse(launch.world)) =>
    LET spawned == launch.did.spawned
        n == Len(spawned)
        passed == permission_sanity_check(launch.world).res = "Ok"
    IN  /\ n \in {2, 3}
        /\ spawned[1] = <<"id", "-u">>
        /\ \A i \in 1..(n - 1) : spawned[i][1] = "id"
        /\ spawned[n] = <<"docker">> \o launch.did.args
        /\ passed <=> launch.did.warnings = <<>>
        /\ launch.did.stdout = <<>>
        /\ \A v \in SameButIds(launch.world) :
             LET other == docker_run(launch.cfg, launch.command, launch.interactive,
                                     FALSE, v)
             IN  /\ other.res = launch.did.res
                 /\ other.code = launch.did.code
                 /\ other.spawned[Len(other.spawned)] = spawned[n]

\* C12's case: the user id is not 1000, the launcher has warned of it and run
\* docker all the same, and docker's exit code 0 made the call return Ok.
C12_Witness ==
  /\ launch.op = "docker_run" /\ launch.pc = "returned" /\ ~launch.printonly
  /\ launch.world.uid = [how |-> "ok", n |-> 1001]
  /\ launch.did.warnings
       = <<"UID is 1001, not 1000", "You will likely have permission issues">>
  /\ Len(launch.did.spawned) = 2
  /\ launch.did.spawned[2][1] = "docker"
  /\ launch.did.res = "Ok"

\* a real run in which docker was started: the launcher got as far as docker
\* and docker could be run
RuntimeSpawned ==
  /\ Returned /\ ~launch.printonly
  /\ IdsParse(launch.world)
  /\ launch.world.status.how # "err"

\* C13: a real run in which docker was started returns Ok exactly when docker
\* exits with code 0; when docker exits with another code c it returns
\* SubprocessFailure(c), and when docker ends without an exit code (killed by
\* a signal) it returns SubprocessFailure(1001).
C13_ExitStatusDecides ==
  RuntimeSpawned =>
    LET status == launch.world.status
    IN  /\ launch.did.res = "Ok" <=> (status.how = "exit" /\ status.code = 0)
        /\ (status.how = "exit" /\ status.code # 0) =>
             (launch.did.res = "SubprocessFailure" /\ launch.did.code = status.code)
        /\ status.how = "signal" =>
             (launch.did.res = "SubprocessFailure" /\ launch.did.code = 1001)

\* C13's case: docker has exited with code 3 and the call has returned
\* SubprocessFailure(3).
C13_Witness ==
  /\ launch.op = "docker_run" /\ launch.pc = "returned" /\ ~launch.printonly
  /\ Len(launch.did.spawned) = 3
  /\ launch.world.status = [how |-> "exit", code |-> 3]
  /\ launch.did.res = "SubprocessFailure"
  /\ launch.did.code = 3

\* a call of permission_sanity_check has returned in a world where both
\* lookups report a number
CheckedReportedIds ==
  /\ launch.op = "permission_sanity_check" /\ launch.pc = "returned"
  /\ launch.world.uid.how = "ok" /\ launch.world.gid.how = "ok"

\* C14: when `id -u` reports u and `id -g` reports g, permission_sanity_check
\* returns Ok exactly when u = 1000 and g = 1000, and DockerPermissionSafety
\* otherwise; the message names the kind and the value of the id that is off
\* ("UID is u, not 1000", "GID is g, not 1000"), so no message for a user id
\* is a message for a group id.
C14_PermissionCheck ==
  CheckedReportedIds =>
    LET u == launch.world.uid.n
        g == launch.world.gid.n
        r == launch.did
    IN  /\ r.res = "Ok" <=> (u = 1000 /\ g = 1000)
        /\ r.res # "Ok" => r.res = "DockerPermissionSafety"
        /\ u # 1000 => r.detail = "UID is " \o ToString(u) \o ", not 1000"
        /\ (u = 1000 /\ g # 1000) => r.detail = "GID is " \o ToString(g) \o ", not 1000"
        /\ u # 1000 =>
             \A n \in ReportedIds \ {1000} :
               permission_sanity_check(
                 [launch.world EXCEPT !.uid.n = 1000, !.gid.n = n]).detail # r.detail

\* C14's case: the user id is 1000, the group id is not, and the check has
\* failed with the message for the group id.
C14_Witness ==
  /\ launch.op = "permission_sanity_check" /\ launch.pc = "returned"
  /\ launch.world.uid = [how |-> "ok", n |-> 1000]
  /\ launch.world.gid = [how |-> "ok", n |-> 65534]
  /\ launch.did.res = "DockerPermissionSafety"
  /\ launch.did.detail = "GID is 65534, not 1000"

\* C15: get_cache_dir gives <root>/globals/<name>/<version> without an
\* environment and <root>/environments/<env>/<name>/<version> with one, no two
\* keys (name, version, env) get the same directory, whether they differ in the
\* name, the version, the environment or in having one, and is_cached of a key
\* is true exactly when the directory of that key exists.
C15_CacheDirInjective ==
  /\ \A k \in CacheKeys :
       /\ (k.name \in Names /\ k.env \in Envs) =>
            get_cache_dir(k.name, k.version, k.env)
              = LayoutDir(k.name, k.version, k.env)
       /\ is_cached(FS, k.name, k.version, k.env)
            <=> get_cache_dir(k.name, k.version, k.env) \in dirs
  /\ \A k1 \in CacheKeys, k2 \in CacheKeys :
       k1 # k2 => get_cache_dir(k1.name, k1.version, k1.env)
                    # get_cache_dir(k2.name, k2.version, k2.env)

\* C16: when get_tarball_url fails, retrieve_published_component fails with
\* the backend's error, downloads nothing and leaves the file system as it
\* was; when get_tarball_url succeeds on a key that is not cached and
\* raw_download fails, it fails with the backend's error after that one
\* download, no directory has been created and the key is still not cached.
C16_BackendFailuresPassThrough ==
  \A name \in Names, version \in VersionArgs, env \in Envs, o \in PublishedOutcomes :
    LET r == retrieve_published_component(FS, name, version, env, o)
        c == o.resolve.component
    IN  /\ ~o.resolve.ok =>
             /\ r.res = "BackendError"
             /\ r.calls = <<"resolve">>
             /\ r.fs = FS
        /\ (o.resolve.ok /\ ~is_dir(FS, LayoutDir(c.name, c.version, env))
              /\ o.download = "err") =>
             /\ r.res = "BackendError"
             /\ r.calls = <<"resolve", "download">>
             /\ r.fs.dirs = dirs
             /\ ~is_dir(r.fs, LayoutDir(c.name, c.version, env))
             /\ ~is_file(r.fs, LayoutTar(c.name, c.version, env))

\* C16's case: one key is cached after an earlier retrieval, and a retrieval
\* that resolves to another key, not cached, fails in its download.
C16_Witness ==
  \E o \in ResolvingTo([name |-> "b", version |-> 1]) :
    /\ o.download = "err"
    /\ is_file(FS, LayoutTar("a", 1, NoEnv))
    /\ ~is_dir(FS, LayoutDir("b", 1, NoEnv))
    /\ retrieve_published_component(FS, "b", NoVersion, NoEnv, o).res = "BackendError"
    /\ retrieve_published_component(FS, "b", NoVersion, NoEnv, o).fs.dirs = dirs

\* C17: in a retrieve_published_component whose resolved key is not cached,
\* a raw_download that returns Ok without leaving ./<name>.tar makes the call
\* fail with MissingTarball and return no path; and when ./<name>.tar is
\* there and is moved without a failure, the tarball is in the cache directory
\* of the key and ./<name>.tar is gone from the working directory.
C17_MissingTarballOrMoved ==
  \A name \in Names, version \in VersionArgs, env \in Envs, o \in PublishedOutcomes :
    LET r == retrieve_published_component(FS, name, version, env, o)
        c == o.resolve.component
        staging == <<".", name \o ".tar">>
        cached == Append(LayoutDir(c.name, c.version, env), name \o ".tar")
    IN  (o.resolve.ok /\ ~is_dir(FS, LayoutDir(c.name, c.version, env))) =>
          /\ o.download = "ok_nofile" =>
               (r.res = "MissingTarball" /\ r.path = NoPath)
          /\ (o.download = "ok" /\ o.mkdir = "ok" /\ o.copy = "ok" /\ o.remove = "ok") =>
               /\ is_file(r.fs, cached)
               /\ r.fs.files[cached] = TarballOf(c.name, c.version, env)
               /\ ~is_file(r.fs, staging)

\* the command tokens C18 gives for cmd: bash alone, or bash, -c and the
\* command between two pairs of double quotes
QuotedForBash(cmd) ==
  IF cmd.some
    THEN <<"/bin/bash", "-c", "\"" \o "\"" \o cmd.text \o "\"" \o "\"">>
    ELSE <<"/bin/bash">>

\* C18: shell(cfg, printonly, cmd) does what docker_run does with
\* interactive = true, the same printonly and the command tokens /bin/bash
\* alone when there is no cmd, and /bin/bash, -c, ""cmd"" when there is one;
\* the invocation ends with these tokens after the -it flag and the image, and
\* cmd itself is no token of it.
C18_ShellQuotesCommand ==
  (launch.op = "shell" /\ launch.pc = "returned") =>
    LET tokens == QuotedForBash(launch.cmd)
        args == launch.did.args
        n == Len(args)
    IN  /\ launch.did = docker_run(launch.cfg, tokens, TRUE, launch.printonly,
                                   launch.world)
        /\ launch.world.home.some =>
             /\ SubSeq(args, n - Len(tokens) + 1, n) = tokens
             /\ args[n - Len(tokens)] = launch.cfg.container
             /\ args[n - Len(tokens) - 1] = "-it"
             /\ launch.cmd.some => \A i \in 1..n : args[i] # launch.cmd.text

\* C18's case: a dry run of shell with the command ls -l has printed an
\* invocation that ends with /bin/bash -c ""ls -l"".
C18_Witness ==
  /\ launch.op = "shell" /\ launch.pc = "returned" /\ launch.printonly
  /\ launch.cmd = [some |-> TRUE, text |-> "ls -l"]
  /\ launch.cfg.mounts = <<>>
  /\ launch.did.stdout =
       <<"docker run --rm -v /home/u/.gitconfig:/home/lal/.gitconfig:ro -v /w:/home/lal/volume -w /home/lal/volume --user lal -it img:1 /bin/bash -c \"\"ls -l\"\"">>

\* the complete tarball of the raced key is at path q
CompleteAt(fs, q) ==
  /\ is_file(fs, q)
  /\ fs.files[q] = TarballOf(RacedComponent.name, RacedComponent.version, RacedEnv)

\* C19: when two processes, each in its own working directory, run
\* retrieve_published_component for the same key that is not cached, then
\* under every interleaving of their steps a call that returns Ok returns a
\* path at which the complete tarball is at that moment, and once both calls
\* have returned the complete tarball of the key is in the cache.
C19_RaceKeepsTarballComplete ==
  /\ [][\A p \in Procs :
          (procs[p].pc # "done" /\ procs'[p].pc = "done" /\ procs'[p].res = "Ok")
            => CompleteAt([dirs |-> dirs', files |-> files'], procs'[p].path)
       ]_vars
  /\ []((\A p \in Procs : procs[p].pc = "done")
          => CompleteAt(FS, LayoutTar(RacedName, RacedComponent.version, RacedEnv)))

\* ./INPUT/<name>/ is in b as it is in a: there or not, with the same files
SameInput(a, b, name) ==
  /\ is_dir(a, <<".", "INPUT", name>>) <=> is_dir(b, <<".", "INPUT", name>>)
  /\ {q \in a.dirs : IsUnder(q, <<".", "INPUT", name>>)}
       = {q \in b.dirs : IsUnder(q, <<".", "INPUT", name>>)}
  /\ InputOf(a, name) = InputOf(b, name)

\* C20: an unpack that fails before the extraction starts returns an error
\* and leaves ./INPUT/<name>/ as it was: unpack_stashed_component of a pair
\* that is not stashed, unpack_published_component whose retrieval fails, and
\* either of them when the archive cannot be opened or its gzip header cannot
\* be read.  A failed unpack that did change ./INPUT/<name>/ got past both.
C20_FailedUnpackKeepsInput ==
  /\ \A name \in Names, code \in Codes, x \in ExtractOutcomes :
       LET r == unpack_stashed_component(FS, name, code, x)
           early == \/ ~is_file(FS, StashArchive(name, code))
                    \/ x.open = "err"
                    \/ x.header = "err"
       IN  /\ early => (r.res # "Ok" /\ SameInput(r.fs, FS, name))
           /\ (r.res # "Ok" /\ ~SameInput(r.fs, FS, name)) => ~early
  /\ \A name \in {"a"}, version \in {NoVersion}, env \in {"dev"} :
       \A o \in OutcomesAt(FS, name, env), x \in ExtractOutcomes :
         LET got == retrieve_published_component(FS, name, version, env, o)
             r == unpack_published_component(FS, name, version, env, o, x)
             early == \/ got.res # "Ok"
                      \/ ~is_file(got.fs, got.path)
                      \/ x.open = "err"
                      \/ x.header = "err"
         IN  /\ early => (r.res # "Ok" /\ SameInput(r.fs, FS, name))
             /\ (r.res # "Ok" /\ ~SameInput(r.fs, FS, name)) => ~early

\* C20's case: ./INPUT/a/ holds an unpacked archive, the archive of (a, c1) is
\* stashed, and an unpack of it whose archive cannot be opened fails and
\* leaves ./INPUT/a/ as it is, as does an unpack of (b, c1), which is not
\* stashed.
C20_Witness ==
  /\ InputOf(FS, "a") = UnpackedAs("a", OutputOf(1))
  /\ is_file(FS, StashArchive("a", "c1"))
  /\ ~is_file(FS, StashArchive("b", "c1"))
  /\ \E x \in ExtractOutcomes :
       /\ x.open = "err"
       /\ unpack_stashed_component(FS, "a", "c1", x).res = "IoError"
       /\ InputOf(unpack_stashed_component(FS, "a", "c1", x).fs, "a")
            = UnpackedAs("a", OutputOf(1))
  /\ \A x \in ExtractOutcomes :
       unpack_stashed_component(FS, "b", "c1", x).res = "MissingStashArtifact"

====
